---- MODULE Spec2Model ----
(***************************************************************************)
(* A model of swarmsim-py: the single-robot simulation                     *)
(* (src/src/single_robot_behaviors.py) and the swarm simulation            *)
(* (src/src/swarm_behaviors.py).                                           *)
(*                                                                         *)
(* Numbers.  The program computes with Python floats.  Here a length is an *)
(* integer number of 1/Scale units, an angle an integer number of degrees  *)
(* (never reduced modulo 360, as in the program), a speed an integer       *)
(* number of 1/Scale units per tick.  sin, cos and atan2 are integer       *)
(* approximations; a sample of random.random() is an integer number of     *)
(* thousandths.  A squared distance stands for the distance: sqrt is       *)
(* monotone, so every comparison and every sort on a distance is the same  *)
(* on its square.                                                          *)
(***************************************************************************)
EXTENDS Integers, Sequences, FiniteSets, TLC

VARIABLES
    prog,      \* which script runs: "single" or "swarm"
    attended,  \* whether the user stays at the keyboard after the first tick
    running,   \* Simulation.running / SwarmSimulation.running
    pc,        \* "loop" while run() iterates, "done" after pygame.quit()
    tick,      \* number of update() calls made so far
    mode,      \* Simulation.mode
    robot,     \* Simulation.robot
    walls,     \* Simulation.walls
    swarm_mode,\* SwarmSimulation.mode
    robots,    \* SwarmSimulation.robots
    clusters   \* SwarmSimulation.clusters

vars == <<prog, attended, running, pc, tick, mode, robot, walls, swarm_mode, robots, clusters>>

----------------------------------------------------------------------------
(* Bounds of the model *)

\* a run with the user at the keyboard (keys at any time, every sample of
\* random.random()) is followed for MaxAttendedTicks ticks
MaxAttendedTicks == 2

\* a run of the single-robot simulation the user leaves alone after choosing
\* the mode (keys before the first tick only, every sample of random.random()
\* is LastSample) is followed for MaxTicks ticks
MaxTicks == 30

\* such a run of the swarm simulation is followed for MaxSwarmTicks ticks
MaxSwarmTicks == 265

\* the size of the roster (20 in the program)
NUM_ROBOTS == 3

\* the size of the rosters find_clusters is applied to on its own
ClusterRobots == 6

\* the size of the rosters a policy step is applied to on its own
PolicyRobots == 10

\* the number of ticks a session under the vacuum policy is followed for
MaxVacuumTicks == 505

----------------------------------------------------------------------------
(* Fixed-point arithmetic *)

Scale == 10
TrigScale == 1000

Abs(a) == IF a < 0 THEN -a ELSE a

Max(a, b) == IF a >= b THEN a ELSE b

Min(a, b) == IF a <= b THEN a ELSE b

\* a / b rounded to the nearest integer (b > 0)
RoundDiv(a, b) ==
    IF a >= 0 THEN (2 * a + b) \div (2 * b) ELSE -((2 * (-a) + b) \div (2 * b))

\* int(a / b) for b > 0: truncation toward zero
TruncDiv(a, b) == IF a >= 0 THEN a \div b ELSE -((-a) \div b)

\* TrigScale * sin(x degrees) for 0 <= x <= 180 (Bhaskara's approximation)
SinHalfTurn(x) ==
    RoundDiv(4 * TrigScale * x * (180 - x), 40500 - x * (180 - x))

\* TrigScale * math.sin(angle)
Sin(angle) ==
    LET m == angle % 360
    IN  IF m <= 180 THEN SinHalfTurn(m) ELSE -SinHalfTurn(m - 180)

\* TrigScale * math.cos(angle)
Cos(angle) == Sin(angle + 90)

\* atan(n / d) in degrees for 0 <= n <= d, d > 0
AtanOctant(n, d) ==
    LET z == (1000 * n) \div d
    IN  RoundDiv(z * (45000 + (1564 * (1000 - z)) \div 100), 1000000)

\* atan2 in degrees for x >= 0, y >= 0, not both zero
AtanQuadrant(y, x) ==
    IF y <= x THEN AtanOctant(y, x) ELSE 90 - AtanOctant(x, y)

\* math.atan2(y, x) in degrees, in -180 .. 180; atan2(0, 0) = 0
Atan2(y, x) ==
    IF x = 0 /\ y = 0 THEN 0
    ELSE IF x >= 0 /\ y >= 0 THEN AtanQuadrant(y, x)
    ELSE IF x < 0 /\ y >= 0 THEN 180 - AtanQuadrant(y, -x)
    ELSE IF x < 0 /\ y < 0 THEN AtanQuadrant(-y, -x) - 180
    ELSE -AtanQuadrant(-y, x)

\* the samples of random.random() the model draws, in thousandths
RandomSamples == {0, 999}

LastSample == 999

\* the samples a draw ranges over
Samples == IF attended THEN RandomSamples ELSE {LastSample}

\* the samples the n robots of a roster draw in one tick, one each: at most
\* one robot draws another sample than LastSample
Draws(n) ==
    { d \in [1..n -> Samples] :
        \A i, j \in 1..n : (d[i] # LastSample /\ d[j] # LastSample) => i = j }

\* random.uniform(-a, a) for the sample r, a in degrees
Uniform(a, r) == RoundDiv(2 * a * r, 1000) - a

\* random.random() < p, p in thousandths, for the sample r
Chance(p, r) == r < p

----------------------------------------------------------------------------
(* swarm_behaviors.py: constants *)

SWARM_SCREEN_WIDTH == 1000
SWARM_SCREEN_HEIGHT == 800
SWARM_ROBOT_SIZE == 10
SWARM_SENSOR_RANGE == 50
WAIT_TIME == 120
AGGREGATION_DISTANCE == 30

\* the squared length of d units, in squared 1/Scale units
Sq(d) == (d * Scale) * (d * Scale)

\* the angle of m thousandths of a radian, in degrees
Deg(m) == RoundDiv(m * 180, 3142)

\* SwarmRobot.__init__; self.angle = random.uniform(0, 2 * math.pi) is the argument
SwarmRobot(x, y, id, angle) ==
    [ x |-> x, y |-> y, id |-> id, angle |-> angle,
      speed |-> (15 * Scale) \div 10,
      max_speed |-> 2 * Scale,
      state |-> "moving",
      wait_timer |-> 0,
      neighbors |-> <<>>,
      cluster_size |-> 0 ]

\* (self.x - robot.x)**2 + (self.y - robot.y)**2
Distance2(a, b) == (a.x - b.x) * (a.x - b.x) + (a.y - b.y) * (a.y - b.y)

\* list.sort(key=lambda n: n['distance']): a stable sort, here by insertion
RECURSIVE InsertByDistance(_, _)
InsertByDistance(sorted, n) ==
    IF sorted = <<>> THEN <<n>>
    ELSE IF sorted[Len(sorted)].distance2 <= n.distance2 THEN Append(sorted, n)
    ELSE Append(InsertByDistance(SubSeq(sorted, 1, Len(sorted) - 1), n),
                sorted[Len(sorted)])

RECURSIVE SortByDistance(_)
SortByDistance(ns) ==
    IF ns = <<>> THEN <<>>
    ELSE InsertByDistance(SortByDistance(SubSeq(ns, 1, Len(ns) - 1)), ns[Len(ns)])

\* the entries as they would be appended without the `robot.id != self.id`
\* test
Detected_with_self(self, rs) ==
    LET near == SelectSeq([i \in 1..Len(rs) |-> i],
                          LAMBDA i : Distance2(self, rs[i]) < Sq(SWARM_SENSOR_RANGE))
    IN  [k \in 1..Len(near) |->
            [ robot |-> rs[near[k]].id,
              distance2 |-> Distance2(self, rs[near[k]]),
              angle |-> Atan2(rs[near[k]].y - self.y, rs[near[k]].x - self.x) ]]

\* the entries sense_neighbors appends, in roster order; 'robot' is the
\* reference to the neighbour, here its id
Detected(self, rs) ==
    LET near == SelectSeq([i \in 1..Len(rs) |-> i],
                          LAMBDA i : rs[i].id # self.id
                                     /\ Distance2(self, rs[i]) < Sq(SWARM_SENSOR_RANGE))
    IN  [k \in 1..Len(near) |->
            [ robot |-> rs[near[k]].id,
              distance2 |-> Distance2(self, rs[near[k]]),
              angle |-> Atan2(rs[near[k]].y - self.y, rs[near[k]].x - self.x) ]]

\* sense_neighbors as it would be without the sort
sense_neighbors_unsorted(self, rs) ==
    [self EXCEPT !.neighbors = Detected(self, rs)]

\* SwarmRobot.sense_neighbors
sense_neighbors(self, rs) ==
    [self EXCEPT !.neighbors = SortByDistance(Detected(self, rs))]

\* basic_stop_behavior as it would be if a robot that stops kept its speed
basic_stop_behavior_keeps_speed(self, r) ==
    IF self.neighbors # <<>> /\ self.neighbors[1].distance2 < Sq(AGGREGATION_DISTANCE)
    THEN [self EXCEPT !.state = "stopped"]
    ELSE [self EXCEPT !.state = "moving", !.speed = self.max_speed,
                      !.angle = @ + Uniform(Deg(100), r)]

\* basic_stop_behavior as it would be with a tag outside the enumeration
basic_stop_behavior_halted(self, r) ==
    IF self.neighbors # <<>> /\ self.neighbors[1].distance2 < Sq(AGGREGATION_DISTANCE)
    THEN [self EXCEPT !.state = "halted", !.speed = 0]
    ELSE [self EXCEPT !.state = "moving", !.speed = self.max_speed,
                      !.angle = @ + Uniform(Deg(100), r)]

\* SwarmRobot.basic_stop_behavior; r is the sample random.uniform draws from
basic_stop_behavior(self, r) ==
    IF self.neighbors # <<>> /\ self.neighbors[1].distance2 < Sq(AGGREGATION_DISTANCE)
    THEN [self EXCEPT !.state = "stopped", !.speed = 0]
    ELSE [self EXCEPT !.state = "moving", !.speed = self.max_speed,
                      !.angle = @ + Uniform(Deg(100), r)]

RECURSIVE SumAngles(_)
SumAngles(ns) == IF ns = <<>> THEN 0 ELSE ns[1].angle + SumAngles(Tail(ns))

\* the stopped branch without its `if self.neighbors:` guard, the bearing of
\* an empty list taken as 0
TimedStopped_unguarded(self, t, r) ==
    IF t <= 0
    THEN LET cluster_count ==
                 Len(SelectSeq(self.neighbors,
                               LAMBDA n : n.distance2 < Sq(AGGREGATION_DISTANCE)))
         IN  IF cluster_count < 3 \/ Chance(100, r)
             THEN [self EXCEPT
                     !.state = "leaving",
                     !.wait_timer = 30,
                     !.angle = RoundDiv(SumAngles(self.neighbors),
                                        Max(1, Len(self.neighbors))) + 180]
             ELSE [self EXCEPT !.wait_timer = WAIT_TIME]
    ELSE [self EXCEPT !.wait_timer = t]

\* the stopped branch as it would be if a cluster of two neighbours could
\* already hold the robot
TimedStopped_small_cluster_holds(self, t, r) ==
    IF t <= 0
    THEN LET cluster_count ==
                 Len(SelectSeq(self.neighbors,
                               LAMBDA n : n.distance2 < Sq(AGGREGATION_DISTANCE)))
         IN  IF cluster_count < 2 \/ Chance(100, r)
             THEN [self EXCEPT
                     !.state = "leaving",
                     !.wait_timer = 30,
                     !.angle = IF self.neighbors # <<>>
                               THEN RoundDiv(SumAngles(self.neighbors),
                                             Len(self.neighbors)) + 180
                               ELSE @]
             ELSE [self EXCEPT !.wait_timer = WAIT_TIME]
    ELSE [self EXCEPT !.wait_timer = t]

\* timed_stop_behavior, the branch of a stopped robot whose wait_timer is t
\* after the decrement
TimedStopped(self, t, r) ==
    IF t <= 0
    THEN LET cluster_count ==
                 Len(SelectSeq(self.neighbors,
                               LAMBDA n : n.distance2 < Sq(AGGREGATION_DISTANCE)))
         IN  IF cluster_count < 3 \/ Chance(100, r)
             THEN [self EXCEPT
                     !.state = "leaving",
                     !.wait_timer = 30,
                     !.angle = IF self.neighbors # <<>>
                               THEN RoundDiv(SumAngles(self.neighbors),
                                             Len(self.neighbors)) + 180
                               ELSE @]
             ELSE [self EXCEPT !.wait_timer = WAIT_TIME]
    ELSE [self EXCEPT !.wait_timer = t]

\* timed_stop_behavior, the branch of a leaving robot
TimedLeaving(self) ==
    LET t == self.wait_timer - 1
    IN  IF t <= 0
        THEN [self EXCEPT !.wait_timer = t, !.state = "moving",
                          !.speed = self.max_speed]
        ELSE [self EXCEPT !.wait_timer = t, !.speed = (self.max_speed * 3) \div 2]

\* SwarmRobot.timed_stop_behavior
timed_stop_behavior(self, r) ==
    LET s1 == IF self.state = "moving"
              THEN IF self.neighbors # <<>>
                      /\ self.neighbors[1].distance2 < Sq(AGGREGATION_DISTANCE)
                   THEN [self EXCEPT !.state = "stopped", !.wait_timer = WAIT_TIME,
                                     !.speed = 0]
                   ELSE self
              ELSE IF self.state = "stopped"
              THEN TimedStopped(self, self.wait_timer - 1, r)
              ELSE IF self.state = "leaving"
              THEN TimedLeaving(self)
              ELSE self
    IN  IF s1.state = "moving"
        THEN [s1 EXCEPT !.angle = @ + Uniform(Deg(100), r), !.speed = s1.max_speed]
        ELSE s1

\* the robot object with the given id in the roster rs
ById(rs, id) == rs[id + 1]

RECURSIVE SumX(_, _)
SumX(rs, ns) == IF ns = <<>> THEN 0 ELSE ById(rs, ns[1].robot).x + SumX(rs, Tail(ns))

RECURSIVE SumY(_, _)
SumY(rs, ns) == IF ns = <<>> THEN 0 ELSE ById(rs, ns[1].robot).y + SumY(rs, Tail(ns))

\* random.random() < leave_prob, leave_prob = 0.001 if cluster_size > 10
\* else 0.01 / (cluster_size + 1)
LeaveChance(cluster_size, r) ==
    IF cluster_size > 10 THEN Chance(1, r) ELSE r * (cluster_size + 1) < 10

\* aggregation_behavior, the branch of a moving robot
AggregationMoving(self, close_neighbors, r) ==
    IF close_neighbors # <<>>
    THEN IF self.cluster_size < 5
         THEN [self EXCEPT
                 !.angle = close_neighbors[1].angle,
                 !.speed = self.max_speed,
                 !.state = IF close_neighbors[1].distance2 < Sq(20)
                           THEN "stopped" ELSE @,
                 !.wait_timer = IF close_neighbors[1].distance2 < Sq(20)
                                THEN WAIT_TIME * 2 ELSE @]
         ELSE [self EXCEPT !.speed = self.max_speed \div 2]
    ELSE LET center_angle == Atan2((SWARM_SCREEN_HEIGHT * Scale) \div 2 - self.y,
                                   (SWARM_SCREEN_WIDTH * Scale) \div 2 - self.x)
         IN  [self EXCEPT
                 !.angle = RoundDiv(9 * self.angle + center_angle, 10)
                           + Uniform(Deg(200), r),
                 !.speed = self.max_speed]

\* the branch of a stopped robot as it would be if a leaving robot were not
\* given its countdown of 20
AggregationStopped_no_countdown(self, close_neighbors, rs, r) ==
    LET t == self.wait_timer - 1
        n == Len(close_neighbors)
    IN  IF t <= 0 \/ LeaveChance(self.cluster_size, r)
        THEN [self EXCEPT
                !.speed = 0,
                !.state = "leaving",
                !.wait_timer = t,
                !.angle = IF close_neighbors # <<>>
                          THEN Atan2(n * self.y - SumY(rs, close_neighbors),
                                     n * self.x - SumX(rs, close_neighbors))
                          ELSE @]
        ELSE [self EXCEPT !.speed = 0, !.wait_timer = t]

\* the branch of a stopped robot as it would be if only the draw, never the
\* countdown, could make it leave
AggregationStopped_chance_only(self, close_neighbors, rs, r) ==
    LET t == self.wait_timer - 1
        n == Len(close_neighbors)
    IN  IF LeaveChance(self.cluster_size, r)
        THEN [self EXCEPT
                !.speed = 0,
                !.state = "leaving",
                !.wait_timer = 20,
                !.angle = IF close_neighbors # <<>>
                          THEN Atan2(n * self.y - SumY(rs, close_neighbors),
                                     n * self.x - SumX(rs, close_neighbors))
                          ELSE @]
        ELSE [self EXCEPT !.speed = 0, !.wait_timer = t]

\* aggregation_behavior, the branch of a stopped robot; rs is the roster the
\* neighbour references n['robot'] are read in
AggregationStopped(self, close_neighbors, rs, r) ==
    LET t == self.wait_timer - 1
        n == Len(close_neighbors)
    IN  IF t <= 0 \/ LeaveChance(self.cluster_size, r)
        THEN [self EXCEPT
                !.speed = 0,
                !.state = "leaving",
                !.wait_timer = 20,
                !.angle = IF close_neighbors # <<>>
                          THEN Atan2(n * self.y - SumY(rs, close_neighbors),
                                     n * self.x - SumX(rs, close_neighbors))
                          ELSE @]
        ELSE [self EXCEPT !.speed = 0, !.wait_timer = t]

\* the branch of a leaving robot as it would be if a cluster of 8 could
\* already pull it back
AggregationLeaving_rejoin_at_8(self, r) ==
    LET t == self.wait_timer - 1
    IN  [self EXCEPT
            !.speed = (self.max_speed * 12) \div 10,
            !.wait_timer = t,
            !.state = IF self.cluster_size >= 8 /\ Chance(300, r) THEN "moving"
                      ELSE IF t <= 0 THEN "moving"
                      ELSE @]

\* aggregation_behavior, the branch of a leaving robot
AggregationLeaving(self, r) ==
    LET t == self.wait_timer - 1
    IN  [self EXCEPT
            !.speed = (self.max_speed * 12) \div 10,
            !.wait_timer = t,
            !.state = IF self.cluster_size > 8 /\ Chance(300, r) THEN "moving"
                      ELSE IF t <= 0 THEN "moving"
                      ELSE @]

\* SwarmRobot.aggregation_behavior
aggregation_behavior(self0, rs, r) ==
    LET close_neighbors ==
            SelectSeq(self0.neighbors,
                      LAMBDA n : n.distance2 < Sq(AGGREGATION_DISTANCE))
        self == [self0 EXCEPT !.cluster_size = Len(close_neighbors)]
    IN  IF self.state = "moving" THEN AggregationMoving(self, close_neighbors, r)
        ELSE IF self.state = "stopped"
        THEN AggregationStopped(self, close_neighbors, rs, r)
        ELSE IF self.state = "leaving" THEN AggregationLeaving(self, r)
        ELSE self

\* max(lo, min(hi, v))
Clamp(lo, hi, v) == Max(lo, Min(hi, v))

\* update_position as it would be if the bounce reflected the heading and
\* left the position where the movement put it
update_position_unclamped(self) ==
    IF self.speed > 0
    THEN LET x1 == self.x + RoundDiv(self.speed * Cos(self.angle), TrigScale)
             y1 == self.y + RoundDiv(self.speed * Sin(self.angle), TrigScale)
             bx == x1 < SWARM_ROBOT_SIZE * Scale
                   \/ x1 > (SWARM_SCREEN_WIDTH - SWARM_ROBOT_SIZE) * Scale
             a1 == IF bx THEN 180 - self.angle ELSE self.angle
             by == y1 < SWARM_ROBOT_SIZE * Scale
                   \/ y1 > (SWARM_SCREEN_HEIGHT - SWARM_ROBOT_SIZE) * Scale
         IN  [self EXCEPT !.x = x1, !.y = y1, !.angle = IF by THEN -a1 ELSE a1]
    ELSE self

\* SwarmRobot.update_position
update_position(self) ==
    IF self.speed > 0
    THEN LET x1 == self.x + RoundDiv(self.speed * Cos(self.angle), TrigScale)
             y1 == self.y + RoundDiv(self.speed * Sin(self.angle), TrigScale)
             xlo == SWARM_ROBOT_SIZE * Scale
             xhi == (SWARM_SCREEN_WIDTH - SWARM_ROBOT_SIZE) * Scale
             ylo == SWARM_ROBOT_SIZE * Scale
             yhi == (SWARM_SCREEN_HEIGHT - SWARM_ROBOT_SIZE) * Scale
             bx == x1 < xlo \/ x1 > xhi
             a1 == IF bx THEN 180 - self.angle ELSE self.angle
             x2 == IF bx THEN Clamp(xlo, xhi, x1) ELSE x1
             by == y1 < ylo \/ y1 > yhi
             a2 == IF by THEN -a1 ELSE a1
             y2 == IF by THEN Clamp(ylo, yhi, y1) ELSE y1
         IN  [self EXCEPT !.x = x2, !.y = y2, !.angle = a2]
    ELSE self

\* the behaviour SwarmSimulation.update runs for one robot in mode m
Behavior(m, self, rs, r) ==
    IF m = "basic" THEN basic_stop_behavior(self, r)
    ELSE IF m = "timed" THEN timed_stop_behavior(self, r)
    ELSE IF m = "aggregation" THEN aggregation_behavior(self, rs, r)
    ELSE self

\* SwarmSimulation.update, first loop
SenseAll(rs) == [i \in 1..Len(rs) |-> sense_neighbors(rs[i], rs)]

\* the second loop as it would be if a robot that stops also halted the
\* nearest robot it senses (n['robot'].speed = 0)
RECURSIVE BehaviorLoop_halts_nearest(_, _, _, _)
BehaviorLoop_halts_nearest(rs, i, m, draws) ==
    IF i > Len(rs) THEN rs
    ELSE LET own == update_position(Behavior(m, rs[i], rs, draws[i]))
             stepped == [rs EXCEPT ![i] = own]
         IN  BehaviorLoop_halts_nearest(
                IF own.state = "stopped" /\ own.neighbors # <<>>
                THEN [stepped EXCEPT ![own.neighbors[1].robot + 1].speed = 0]
                ELSE stepped,
                i + 1, m, draws)

\* the second loop as it would be if each robot sensed just before it decides,
\* in the roster the earlier robots have already been moved in
RECURSIVE BehaviorLoop_sense_late(_, _, _, _)
BehaviorLoop_sense_late(rs, i, m, draws) ==
    IF i > Len(rs) THEN rs
    ELSE BehaviorLoop_sense_late(
            [rs EXCEPT ![i] = update_position(Behavior(m, sense_neighbors(rs[i], rs),
                                                       rs, draws[i]))],
            i + 1, m, draws)

\* SwarmSimulation.update, second loop from robot i on: each robot decides and
\* moves in the roster the earlier robots have already been moved in
RECURSIVE BehaviorLoop(_, _, _, _)
BehaviorLoop(rs, i, m, draws) ==
    IF i > Len(rs) THEN rs
    ELSE BehaviorLoop(
            [rs EXCEPT ![i] = update_position(Behavior(m, rs[i], rs, draws[i]))],
            i + 1, m, draws)

\* the while loop as it would be if every sensed neighbour were pushed,
\* whatever its distance
RECURSIVE Traverse_any_neighbor(_, _, _, _)
Traverse_any_neighbor(rs, stack, visited, cluster) ==
    IF stack = <<>> THEN [visited |-> visited, cluster |-> cluster]
    ELSE LET current == stack[Len(stack)]
             rest == SubSeq(stack, 1, Len(stack) - 1)
         IN  IF current \in visited
             THEN Traverse_any_neighbor(rs, rest, visited, cluster)
             ELSE LET v1 == visited \cup {current}
                      push == SelectSeq(ById(rs, current).neighbors,
                                        LAMBDA n : n.robot \notin v1)
                  IN  Traverse_any_neighbor(rs,
                               rest \o [k \in 1..Len(push) |-> push[k].robot],
                               v1, Append(cluster, current))

\* SwarmSimulation.find_clusters, the while loop: stack and cluster are
\* sequences of ids, visited a set of ids
RECURSIVE Traverse(_, _, _, _)
Traverse(rs, stack, visited, cluster) ==
    IF stack = <<>> THEN [visited |-> visited, cluster |-> cluster]
    ELSE LET current == stack[Len(stack)]
             rest == SubSeq(stack, 1, Len(stack) - 1)
         IN  IF current \in visited
             THEN Traverse(rs, rest, visited, cluster)
             ELSE LET v1 == visited \cup {current}
                      push == SelectSeq(ById(rs, current).neighbors,
                                 LAMBDA n : n.robot \notin v1
                                    /\ n.distance2 < Sq(AGGREGATION_DISTANCE))
                  IN  Traverse(rs,
                               rest \o [k \in 1..Len(push) |-> push[k].robot],
                               v1, Append(cluster, current))

\* SwarmSimulation.find_clusters, the for loop from robot i on
RECURSIVE ClusterLoop(_, _, _, _)
ClusterLoop(rs, i, visited, found) ==
    IF i > Len(rs) THEN found
    ELSE IF rs[i].id \in visited THEN ClusterLoop(rs, i + 1, visited, found)
    ELSE LET t == Traverse(rs, <<rs[i].id>>, visited, <<>>)
         IN  ClusterLoop(rs, i + 1, t.visited,
                         IF Len(t.cluster) > 1 THEN Append(found, t.cluster)
                         ELSE found)

\* SwarmSimulation.find_clusters: the clusters, each the ids of its robots
find_clusters(rs) == ClusterLoop(rs, 1, {}, <<>>)

----------------------------------------------------------------------------
(* single_robot_behaviors.py *)

SCREEN_WIDTH == 800
SCREEN_HEIGHT == 600
ROBOT_SIZE == 20
SENSOR_RANGE == 100
WALL_THICKNESS == 10
TRAIL_LIMIT == 500

\* Robot.sensor_angles, in degrees
sensor_angles == <<-45, -30, -15, 0, 15, 30, 45>>

\* pygame.Rect(left, top, width, height), in 1/Scale units
Rect(left, top, width, height) ==
    [ left |-> left * Scale, top |-> top * Scale,
      width |-> width * Scale, height |-> height * Scale ]

\* the list Simulation.__init__ stores in self.walls
Walls ==
    << Rect(0, 0, SCREEN_WIDTH, WALL_THICKNESS),
       Rect(0, SCREEN_HEIGHT - WALL_THICKNESS, SCREEN_WIDTH, WALL_THICKNESS),
       Rect(0, 0, WALL_THICKNESS, SCREEN_HEIGHT),
       Rect(SCREEN_WIDTH - WALL_THICKNESS, 0, WALL_THICKNESS, SCREEN_HEIGHT),
       Rect(200, 200, 100, 20),
       Rect(500, 300, 20, 100),
       Rect(300, 400, 80, 80) >>

\* wall.collidepoint(x, y): the right and the bottom edge are outside
collidepoint(wall, x, y) ==
    /\ wall.left <= x
    /\ x < wall.left + wall.width
    /\ wall.top <= y
    /\ y < wall.top + wall.height

\* some wall contains the point (x, y)
HitsWall(ws, x, y) == \E k \in 1..Len(ws) : collidepoint(ws[k], x, y)

\* the iterations as they would be without the two break statements: the
\* last distance among them that finds a wall
RECURSIVE March_no_break(_, _, _, _, _, _, _)
March_no_break(ws, x, y, c, s, distance, stop) ==
    IF distance >= stop THEN stop
    ELSE LET later == March_no_break(ws, x, y, c, s, distance + 1, stop)
         IN  IF later < stop THEN later
             ELSE IF HitsWall(ws, x + RoundDiv(distance * Scale * c, TrigScale),
                                  y + RoundDiv(distance * Scale * s, TrigScale))
             THEN distance
             ELSE stop

\* sense_walls, the iterations of "for distance in range(1, SENSOR_RANGE)"
\* from the given distance up to (not including) stop, for the ray from (x, y)
\* whose direction has the cosine c and the sine s (times TrigScale): the
\* distance of the first iteration that finds a wall, or stop if none does
RECURSIVE March(_, _, _, _, _, _, _)
March(ws, x, y, c, s, distance, stop) ==
    IF distance >= stop THEN stop
    ELSE IF HitsWall(ws, x + RoundDiv(distance * Scale * c, TrigScale),
                         y + RoundDiv(distance * Scale * s, TrigScale))
    THEN distance
    ELSE March(ws, x, y, c, s, distance + 1, stop)

\* sense_walls, the loop "for distance in range(1, SENSOR_RANGE)" from the
\* given distance on, ten iterations at a time: the value min_distance ends
\* with (the loop is left at the first iteration that finds a wall)
RECURSIVE CastRay(_, _, _, _, _, _)
CastRay(ws, x, y, c, s, distance) ==
    IF distance >= SENSOR_RANGE THEN SENSOR_RANGE
    ELSE LET stop == Min(distance + 10, SENSOR_RANGE)
             found == March(ws, x, y, c, s, distance, stop)
         IN  IF found < stop THEN found ELSE CastRay(ws, x, y, c, s, stop)

\* sense_walls, one iteration of the loop over the sensors: the reading of
\* the sensor at the given offset
Reading(self, ws, angle_offset) ==
    LET angle == self.angle + angle_offset
        c == Cos(angle)
        s == Sin(angle)
    IN  CastRay(ws, self.x, self.y, c, s, 1)

\* sense_walls, the loop over the sensors from sensor i on
RECURSIVE Readings(_, _, _)
Readings(self, ws, i) ==
    IF i > Len(sensor_angles) THEN <<>>
    ELSE <<Reading(self, ws, sensor_angles[i])>> \o Readings(self, ws, i + 1)

\* Robot.sense_walls
sense_walls(self, ws) == [self EXCEPT !.sensor_readings = Readings(self, ws, 1)]

\* Robot.__init__; self.angle = random.uniform(0, 2 * math.pi) is the argument
Robot(x, y, angle) ==
    [ x |-> x, y |-> y, angle |-> angle,
      speed |-> 2 * Scale,
      sensor_readings |-> [i \in 1..Len(sensor_angles) |-> SENSOR_RANGE],
      trail |-> <<>>,
      wall_follow_state |-> "searching",
      wall_distance |-> 40 ]

\* self.x += self.speed * math.cos(self.angle), and the same for y
Advance(self) ==
    [self EXCEPT
        !.x = @ + RoundDiv(self.speed * Cos(self.angle), TrigScale),
        !.y = @ + RoundDiv(self.speed * Sin(self.angle), TrigScale)]

\* min(readings)
RECURSIVE MinOf(_)
MinOf(readings) ==
    IF Len(readings) = 1 THEN readings[1]
    ELSE Min(readings[1], MinOf(Tail(readings)))

\* sum(readings)
RECURSIVE SumOf(_)
SumOf(readings) ==
    IF readings = <<>> THEN 0 ELSE readings[1] + SumOf(Tail(readings))

\* collision_avoidance as it would be if it turned to the side with less
\* clearance
collision_avoidance_toward_wall(self, r) ==
    LET front_sensors == SubSeq(self.sensor_readings, 3, 5)
        left_sum == SumOf(SubSeq(self.sensor_readings, 1, 3))
        right_sum == SumOf(SubSeq(self.sensor_readings, 5, 7))
        turned == IF MinOf(front_sensors) < 40
                  THEN IF left_sum < right_sum
                       THEN [self EXCEPT !.angle = @ - Deg(100)]
                       ELSE [self EXCEPT !.angle = @ + Deg(100)]
                  ELSE [self EXCEPT !.angle = @ + Uniform(Deg(20), r)]
    IN  Advance(turned)

\* Robot.collision_avoidance
collision_avoidance(self, r) ==
    LET front_sensors == SubSeq(self.sensor_readings, 3, 5)
        left_sum == SumOf(SubSeq(self.sensor_readings, 1, 3))
        right_sum == SumOf(SubSeq(self.sensor_readings, 5, 7))
        turned == IF MinOf(front_sensors) < 40
                  THEN IF left_sum < right_sum
                       THEN [self EXCEPT !.angle = @ + Deg(100)]
                       ELSE [self EXCEPT !.angle = @ - Deg(100)]
                  ELSE [self EXCEPT !.angle = @ + Uniform(Deg(20), r)]
    IN  Advance(turned)

\* wall_follower as it would be if a following robot that no longer reads a
\* wall went back to searching
wall_follower_rescan(self, r) ==
    LET front_distance == self.sensor_readings[4]
        right_distance == self.sensor_readings[6]
    IN  IF self.wall_follow_state = "searching"
        THEN IF MinOf(self.sensor_readings) < 50
             THEN [self EXCEPT !.wall_follow_state = "following"]
             ELSE Advance([self EXCEPT !.angle = @ + Uniform(Deg(50), r)])
        ELSE IF MinOf(self.sensor_readings) >= 50
        THEN [self EXCEPT !.wall_follow_state = "searching"]
        ELSE IF front_distance < 30
        THEN [self EXCEPT !.angle = @ - Deg(100)]
        ELSE IF right_distance > self.wall_distance + 10
        THEN [self EXCEPT !.angle = @ + Deg(50)]
        ELSE IF right_distance < self.wall_distance - 10
        THEN [self EXCEPT !.angle = @ - Deg(50)]
        ELSE Advance(self)

\* Robot.wall_follower
wall_follower(self, r) ==
    LET front_distance == self.sensor_readings[4]
        right_distance == self.sensor_readings[6]
    IN  IF self.wall_follow_state = "searching"
        THEN IF MinOf(self.sensor_readings) < 50
             THEN [self EXCEPT !.wall_follow_state = "following"]
             ELSE Advance([self EXCEPT !.angle = @ + Uniform(Deg(50), r)])
        ELSE IF self.wall_follow_state = "following"
        THEN IF front_distance < 30
             THEN [self EXCEPT !.angle = @ - Deg(100)]
             ELSE IF right_distance > self.wall_distance + 10
             THEN [self EXCEPT !.angle = @ + Deg(50)]
             ELSE IF right_distance < self.wall_distance - 10
             THEN [self EXCEPT !.angle = @ - Deg(50)]
             ELSE Advance(self)
        ELSE self

\* the trail as it would be if the newest entry were popped instead of the
\* oldest
Visit_evict_newest(trail, x, y) ==
    LET appended == Append(trail, <<TruncDiv(x, Scale), TruncDiv(y, Scale)>>)
    IN  IF Len(appended) > TRAIL_LIMIT
        THEN SubSeq(appended, 1, Len(appended) - 1)
        ELSE appended

\* the trail after vacuum_cleaner's append and eviction
Visit(trail, x, y) ==
    LET appended == Append(trail, <<TruncDiv(x, Scale), TruncDiv(y, Scale)>>)
    IN  IF Len(appended) > TRAIL_LIMIT THEN Tail(appended) ELSE appended

\* vacuum_cleaner as it would be if the spiral grew with the oldest x
\* coordinate of the trail instead of with its length
vacuum_cleaner_by_contents(self, r1, r2) ==
    LET trail == Visit(self.trail, self.x, self.y)
        front_distance == self.sensor_readings[4]
        spiral == RoundDiv((200 + trail[1][1]) * 180, 31416)
        turned == IF front_distance < 30
                  THEN [self EXCEPT !.trail = trail, !.angle = @ + 90]
                  ELSE [self EXCEPT
                          !.trail = trail,
                          !.angle = @ + spiral
                                    + (IF Chance(50, r1) THEN Uniform(45, r2) ELSE 0)]
    IN  Advance(turned)

\* Robot.vacuum_cleaner; r1 is the sample of random.random(), r2 the one
\* random.uniform draws from
vacuum_cleaner(self, r1, r2) ==
    LET trail == Visit(self.trail, self.x, self.y)
        front_distance == self.sensor_readings[4]
        spiral == RoundDiv((200 + Len(trail)) * 180, 31416)
        turned == IF front_distance < 30
                  THEN [self EXCEPT !.trail = trail, !.angle = @ + 90]
                  ELSE [self EXCEPT
                          !.trail = trail,
                          !.angle = @ + spiral
                                    + (IF Chance(50, r1) THEN Uniform(45, r2) ELSE 0)]
    IN  Advance(turned)

\* Simulation.update, the policy of mode m
Policy(m, self, r1, r2) ==
    IF m = "collision_avoidance" THEN collision_avoidance(self, r1)
    ELSE IF m = "wall_follower" THEN wall_follower(self, r1)
    ELSE IF m = "vacuum_cleaner" THEN vacuum_cleaner(self, r1, r2)
    ELSE self

\* Simulation.update, "keep robot within bounds"
KeepWithinBounds(self) ==
    [self EXCEPT
        !.x = Clamp(ROBOT_SIZE * Scale, (SCREEN_WIDTH - ROBOT_SIZE) * Scale, @),
        !.y = Clamp(ROBOT_SIZE * Scale, (SCREEN_HEIGHT - ROBOT_SIZE) * Scale, @)]

\* Simulation.update from the policy on: sensed is the robot after
\* self.robot.sense_walls(self.walls)
update(m, sensed, r1, r2) == KeepWithinBounds(Policy(m, sensed, r1, r2))

\* SwarmSimulation.update from its second loop on: sensed is the roster after
\* the first loop
swarm_update(m, sensed, draws) == BehaviorLoop(sensed, 1, m, draws)

----------------------------------------------------------------------------
(* The two programs *)

\* the poses (x, y, angle) Simulation.__init__ and the reset key draw:
\* x = random.randint(50, SCREEN_WIDTH - 50), y = random.randint(50,
\* SCREEN_HEIGHT - 50), angle = random.uniform(0, 2 * math.pi)
Spawns == { <<60, 300, 180>>, <<400, 150, 0>>, <<250, 165, 90>>, <<50, 50, 136>> }

\* the poses (x, y, angle) SwarmSimulation.__init__ and the reset key draw for
\* one robot: x = random.randint(ROBOT_SIZE * 2, SCREEN_WIDTH - ROBOT_SIZE * 2),
\* y likewise, angle = random.uniform(0, 2 * math.pi)
SwarmSpawns == { <<20, 20, 160>>, <<25, 20, 0>>, <<45, 40, 225>> }

\* the roster of NUM_ROBOTS robots with ids 0 .. NUM_ROBOTS - 1 at the poses p
Roster(p) ==
    [i \in 1..NUM_ROBOTS |->
        SwarmRobot(p[i][1] * Scale, p[i][2] * Scale, i - 1, p[i][3])]

\* no object: the other script's simulation does not exist in this process
None == "None"

InitSingle ==
    /\ prog = "single"
    /\ mode = "collision_avoidance"
    /\ \E p \in Spawns : robot = Robot(p[1] * Scale, p[2] * Scale, p[3])
    /\ walls = Walls
    /\ swarm_mode = None
    /\ robots = <<>>
    /\ clusters = <<>>

InitSwarm ==
    /\ prog = "swarm"
    /\ swarm_mode = "basic"
    /\ \E p \in [1..NUM_ROBOTS -> SwarmSpawns] : robots = Roster(p)
    /\ clusters = <<>>
    /\ mode = None
    /\ robot = None
    /\ walls = None

Init ==
    /\ attended \in BOOLEAN
    /\ running = TRUE
    /\ pc = "loop"
    /\ tick = 0
    /\ (InitSingle \/ InitSwarm)

\* a key event can be handled now
KeyDown(p) ==
    /\ prog = p
    /\ pc = "loop"
    /\ IF attended THEN tick < MaxAttendedTicks ELSE tick = 0

\* update can be called now; limit bounds an unattended run
CanUpdate(p, limit) ==
    /\ prog = p
    /\ pc = "loop"
    /\ tick < (IF attended THEN MaxAttendedTicks ELSE limit)

\* Simulation.handle_events, pygame.QUIT
Quit ==
    /\ KeyDown("single") /\ running
    /\ running' = FALSE
    /\ UNCHANGED <<prog, attended, pc, tick, mode, robot, walls, swarm_mode, robots, clusters>>

\* Simulation.handle_events, K_1
Key1 ==
    /\ KeyDown("single")
    /\ mode' = "collision_avoidance"
    /\ UNCHANGED <<prog, attended, running, pc, tick, robot, walls, swarm_mode, robots, clusters>>

\* K_2 as it would be without the assignment to wall_follow_state
Key2_no_reset ==
    /\ KeyDown("single")
    /\ mode' = "wall_follower"
    /\ UNCHANGED <<prog, attended, running, pc, tick, robot, walls, swarm_mode, robots, clusters>>

\* Simulation.handle_events, K_2
Key2 ==
    /\ KeyDown("single")
    /\ mode' = "wall_follower"
    /\ robot' = [robot EXCEPT !.wall_follow_state = "searching"]
    /\ UNCHANGED <<prog, attended, running, pc, tick, walls, swarm_mode, robots, clusters>>

\* Simulation.handle_events, K_3
Key3 ==
    /\ KeyDown("single")
    /\ mode' = "vacuum_cleaner"
    /\ robot' = [robot EXCEPT !.trail = <<>>]
    /\ UNCHANGED <<prog, attended, running, pc, tick, walls, swarm_mode, robots, clusters>>

\* Simulation.handle_events, K_r
KeyR ==
    /\ KeyDown("single")
    /\ \E p \in Spawns : robot' = Robot(p[1] * Scale, p[2] * Scale, p[3])
    /\ UNCHANGED <<prog, attended, running, pc, tick, mode, walls, swarm_mode, robots, clusters>>

\* one iteration of Simulation.run after its handle_events: update
Update ==
    /\ CanUpdate("single", MaxTicks)
    /\ \E sensed \in {sense_walls(robot, walls)} :
           \E r1 \in Samples, r2 \in Samples :
               robot' = update(mode, sensed, r1, r2)
    /\ tick' = tick + 1
    /\ pc' = IF running THEN "loop" ELSE "done"
    /\ UNCHANGED <<prog, attended, running, mode, walls, swarm_mode, robots, clusters>>

\* SwarmSimulation.handle_events, pygame.QUIT
SwarmQuit ==
    /\ KeyDown("swarm") /\ running
    /\ running' = FALSE
    /\ UNCHANGED <<prog, attended, pc, tick, mode, robot, walls, swarm_mode, robots, clusters>>

\* SwarmSimulation.handle_events, K_1
SwarmKey1 ==
    /\ KeyDown("swarm")
    /\ swarm_mode' = "basic"
    /\ UNCHANGED <<prog, attended, running, pc, tick, mode, robot, walls, robots, clusters>>

\* SwarmSimulation.handle_events, K_2
SwarmKey2 ==
    /\ KeyDown("swarm")
    /\ swarm_mode' = "timed"
    /\ UNCHANGED <<prog, attended, running, pc, tick, mode, robot, walls, robots, clusters>>

\* SwarmSimulation.handle_events, K_3
SwarmKey3 ==
    /\ KeyDown("swarm")
    /\ swarm_mode' = "aggregation"
    /\ UNCHANGED <<prog, attended, running, pc, tick, mode, robot, walls, robots, clusters>>

\* K_r as it would be if it moved the robots of the roster to new poses
\* instead of constructing new ones
SwarmKeyR_replace ==
    /\ KeyDown("swarm")
    /\ \E p \in [1..NUM_ROBOTS -> SwarmSpawns] :
           robots' = [i \in 1..Len(robots) |->
                         [robots[i] EXCEPT !.x = p[i][1] * Scale,
                                           !.y = p[i][2] * Scale,
                                           !.angle = p[i][3]]]
    /\ UNCHANGED <<prog, attended, running, pc, tick, mode, robot, walls, swarm_mode, clusters>>

\* SwarmSimulation.handle_events, K_r
SwarmKeyR ==
    /\ KeyDown("swarm")
    /\ \E p \in [1..NUM_ROBOTS -> SwarmSpawns] : robots' = Roster(p)
    /\ UNCHANGED <<prog, attended, running, pc, tick, mode, robot, walls, swarm_mode, clusters>>

\* one iteration of SwarmSimulation.run after its handle_events: update
SwarmUpdate ==
    /\ CanUpdate("swarm", MaxSwarmTicks)
    /\ \E sensed \in {SenseAll(robots)} :
           \E draws \in Draws(Len(robots)) :
               robots' = swarm_update(swarm_mode, sensed, draws)
    /\ clusters' = find_clusters(robots')
    /\ tick' = tick + 1
    /\ pc' = IF running THEN "loop" ELSE "done"
    /\ UNCHANGED <<prog, attended, running, mode, robot, walls, swarm_mode>>

Next ==
    \/ Quit \/ Key1 \/ Key2 \/ Key3 \/ KeyR \/ Update
    \/ SwarmQuit \/ SwarmKey1 \/ SwarmKey2 \/ SwarmKey3 \/ SwarmKeyR \/ SwarmUpdate

Spec == Init /\ [][Next]_vars

----------------------------------------------------------------------------
(* find_clusters on its own: a roster is placed, sensed and searched *)

\* the positions a robot of such a roster is placed at: (12.5, 10) is within
\* AGGREGATION_DISTANCE of (10, 10) and (16, 10) is within SENSOR_RANGE of both
\* but within AGGREGATION_DISTANCE of neither
ClusterSpawns == { <<100, 100, 0>>, <<125, 100, 0>>, <<160, 100, 0>>, <<500, 400, 0>> }

InitClusters ==
    /\ prog = "swarm"
    /\ attended = FALSE
    /\ running = TRUE
    /\ pc = "loop"
    /\ tick = 0
    /\ swarm_mode = "basic"
    /\ \E p \in [1..ClusterRobots -> ClusterSpawns] :
           robots = [i \in 1..ClusterRobots |->
                        SwarmRobot(p[i][1] * Scale, p[i][2] * Scale, i - 1, p[i][3])]
    /\ clusters = <<>>
    /\ mode = None
    /\ robot = None
    /\ walls = None

\* SwarmSimulation.update without its second loop: every robot senses, then
\* find_clusters runs
DetectClusters ==
    /\ tick = 0
    /\ robots' = SenseAll(robots)
    /\ clusters' = find_clusters(robots')
    /\ tick' = 1
    /\ UNCHANGED <<prog, attended, running, pc, mode, robot, walls, swarm_mode>>

NextClusters == DetectClusters

SpecClusters == InitClusters /\ [][NextClusters]_vars

----------------------------------------------------------------------------
(* sense_walls on its own: a robot is put at a pose among obstacles and     *)
(* senses once                                                              *)

\* the poses the robot is put at: in the open, next to and inside obstacles,
\* on the border and outside the screen
SensePoints == { <<400, 150>>, <<60, 300>>, <<250, 165>>, <<250, 210>>,
                 <<505, 290>>, <<0, 0>>, <<795, 300>>, <<-20, 300>> }

SenseAngles == { 0, 45, 90, 136, 180, 219, 270, -30 }

\* the obstacle sets: none, the program's walls, one block, two blocks that
\* lie behind each other
ObstacleSets ==
    { <<>>, Walls, <<Rect(200, 200, 100, 20)>>,
      <<Rect(300, 140, 10, 20), Rect(330, 100, 40, 100)>> }

InitSense ==
    /\ prog = "single"
    /\ attended = FALSE
    /\ running = TRUE
    /\ pc = "loop"
    /\ tick = 0
    /\ mode = "collision_avoidance"
    /\ \E p \in SensePoints, a \in SenseAngles :
           robot = Robot(p[1] * Scale, p[2] * Scale, a)
    /\ walls \in ObstacleSets
    /\ swarm_mode = None
    /\ robots = <<>>
    /\ clusters = <<>>

\* robot.sense_walls(walls)
SenseWalls ==
    /\ tick = 0
    /\ robot' = sense_walls(robot, walls)
    /\ tick' = 1
    /\ UNCHANGED <<prog, attended, running, pc, mode, walls, swarm_mode, robots, clusters>>

NextSense == SenseWalls

SpecSense == InitSense /\ [][NextSense]_vars

----------------------------------------------------------------------------
(* A long session under the vacuum policy: key 3 has been pressed before    *)
(* the first update, nobody touches the keys while the robot runs and       *)
(* random.random() never falls under 0.05; at the end a key is pressed      *)

InitVacuum ==
    /\ prog = "single"
    /\ attended = FALSE
    /\ running = TRUE
    /\ pc = "loop"
    /\ tick = 0
    /\ mode = "vacuum_cleaner"
    /\ \E p \in Spawns : robot = Robot(p[1] * Scale, p[2] * Scale, p[3])
    /\ walls = Walls
    /\ swarm_mode = None
    /\ robots = <<>>
    /\ clusters = <<>>

\* one iteration of Simulation.run after its handle_events: update
VacuumUpdate ==
    /\ tick < MaxVacuumTicks
    /\ \E sensed \in {sense_walls(robot, walls)} :
           \E r1 \in Samples, r2 \in Samples :
               robot' = update(mode, sensed, r1, r2)
    /\ tick' = tick + 1
    /\ UNCHANGED <<prog, attended, running, pc, mode, walls, swarm_mode, robots, clusters>>

\* Simulation.handle_events, K_3, at the end of the session
VacuumKey3 ==
    /\ tick = MaxVacuumTicks
    /\ mode' = "vacuum_cleaner"
    /\ robot' = [robot EXCEPT !.trail = <<>>]
    /\ UNCHANGED <<prog, attended, running, pc, tick, walls, swarm_mode, robots, clusters>>

\* Simulation.handle_events, K_r, at the end of the session
VacuumKeyR ==
    /\ tick = MaxVacuumTicks
    /\ \E p \in Spawns : robot' = Robot(p[1] * Scale, p[2] * Scale, p[3])
    /\ UNCHANGED <<prog, attended, running, pc, tick, mode, walls, swarm_mode, robots, clusters>>

NextVacuum == VacuumUpdate \/ VacuumKey3 \/ VacuumKeyR

SpecVacuum == InitVacuum /\ [][NextVacuum]_vars

----------------------------------------------------------------------------
(* One policy step on its own: a robot in the middle of a run, with the     *)
(* other robots of the roster near it or far from it, senses, decides and   *)
(* moves once                                                               *)

\* the state, countdown and speed of the robot that takes the step: as
\* constructed or moving; stopped by basic stop (countdown 0), by timed stop
\* or by aggregation (which leaves the speed at max_speed for a tick), with
\* the countdown about to expire or not; leaving, just now (speed 0) or for a
\* while, with the countdown about to expire or not
SubjectStates ==
    [state : {"moving"}, wait_timer : {0}, speed : {15, 20}]
        \cup [state : {"stopped"}, wait_timer : {0, 1, 2, WAIT_TIME}, speed : {0, 20}]
        \cup [state : {"leaving"}, wait_timer : {1, 2, 30}, speed : {0, 24, 30}]

\* the robot that takes the step, in the middle of the arena
Subject(s) ==
    [SwarmRobot(500 * Scale, 400 * Scale, 0, 90) EXCEPT
        !.state = s.state, !.wait_timer = s.wait_timer, !.speed = s.speed]

\* the robot with id j, 3 * j units from the subject (near) or out of its
\* sensor range
Other(j, near) ==
    IF near THEN SwarmRobot((500 + 3 * j) * Scale, 400 * Scale, j, 0)
    ELSE SwarmRobot(800 * Scale, (100 + 20 * j) * Scale, j, 0)

InitPolicy ==
    /\ prog = "swarm"
    /\ attended = TRUE
    /\ running = TRUE
    /\ pc = "loop"
    /\ tick = 0
    /\ swarm_mode \in {"basic", "timed", "aggregation"}
    /\ \E s \in SubjectStates, near \in [1..(PolicyRobots - 1) -> BOOLEAN] :
           robots = [i \in 1..PolicyRobots |->
                        IF i = 1 THEN Subject(s) ELSE Other(i - 1, near[i - 1])]
    /\ clusters = <<>>
    /\ mode = None
    /\ robot = None
    /\ walls = None

\* the robot with id 0 senses, runs the policy of the mode and moves
PolicyStep ==
    /\ tick = 0
    /\ \E r \in Samples :
           robots' = [robots EXCEPT ![1] =
                         update_position(Behavior(swarm_mode,
                                                  sense_neighbors(robots[1], robots),
                                                  robots, r))]
    /\ tick' = 1
    /\ UNCHANGED <<prog, attended, running, pc, mode, robot, walls, swarm_mode, clusters>>

NextPolicy == PolicyStep

SpecPolicy == InitPolicy /\ [][NextPolicy]_vars

----------------------------------------------------------------------------
(* Properties *)

\* a step of Simulation.update
Tick == prog = "single" /\ tick' = tick + 1

\* a step of SwarmSimulation.update
SwarmTick == prog = "swarm" /\ tick' = tick + 1

\* the single robot's body is inside the arena
RobotInArena ==
    /\ ROBOT_SIZE * Scale <= robot.x
    /\ robot.x <= (SCREEN_WIDTH - ROBOT_SIZE) * Scale
    /\ ROBOT_SIZE * Scale <= robot.y
    /\ robot.y <= (SCREEN_HEIGHT - ROBOT_SIZE) * Scale

\* the body of the swarm robot r is inside the arena
SwarmRobotInArena(r) ==
    /\ SWARM_ROBOT_SIZE * Scale <= r.x
    /\ r.x <= (SWARM_SCREEN_WIDTH - SWARM_ROBOT_SIZE) * Scale
    /\ SWARM_ROBOT_SIZE * Scale <= r.y
    /\ r.y <= (SWARM_SCREEN_HEIGHT - SWARM_ROBOT_SIZE) * Scale

\* C1: at construction, after every tick and after every reset, the single
\* robot's position is within [ROBOT_SIZE, dimension - ROBOT_SIZE] in x and in
\* y, and so is every swarm robot's (with the swarm constants).
C1_InArena ==
    /\ prog = "single" => RobotInArena
    /\ prog = "swarm" => \A i \in 1..Len(robots) : SwarmRobotInArena(robots[i])

\* C1, witness: a tick of the single-robot simulation has put the robot on the
\* edge of the allowed region, which no spawn position is on
C1_Witness ==
    /\ prog = "single"
    /\ tick > 0
    /\ \/ robot.x = ROBOT_SIZE * Scale
       \/ robot.y = ROBOT_SIZE * Scale

\* C2: every swarm robot's wait_timer is >= 0 in every state, and a tick
\* leaves each robot's wait_timer at the value that robot's own policy step
\* gives it from the robot's own sensed state: sensing, the movement step, the
\* other robots' steps and cluster detection do not change it.
C2_Timers ==
    /\ [](prog = "swarm" => \A i \in 1..Len(robots) : robots[i].wait_timer >= 0)
    /\ [][SwarmTick =>
            \E sensed \in {SenseAll(robots)} :
                \A i \in 1..Len(robots) :
                    \E r \in Samples :
                        robots'[i].wait_timer
                          = Behavior(swarm_mode, sensed[i], sensed, r).wait_timer]_vars

\* C2, witness: under timed stop a robot is leaving with the countdown 30
\* fewer than WAIT_TIME ticks into the run: it was stopped by basic stop with
\* wait_timer 0, and its timed step counted that down to -1 and set it again
C2_Witness ==
    /\ prog = "swarm"
    /\ swarm_mode = "timed"
    /\ tick < WAIT_TIME
    /\ \E i \in 1..Len(robots) :
           robots[i].state = "leaving" /\ robots[i].wait_timer = 30

\* SwarmSimulation.update as the claim C3 describes it: every policy reads the
\* other robots in the roster as it was sensed
SnapshotUpdate(m, sensed, draws) ==
    [i \in 1..Len(sensed) |->
        update_position(Behavior(m, sensed[i], sensed, draws[i]))]

\* C3: within one tick every value about other robots that a policy reads is
\* its value at the sensing phase, so the roster after the tick is the one
\* obtained when every robot decides on the sensed roster.
C3_Snapshot ==
    [][SwarmTick =>
        \E sensed \in {SenseAll(robots)} :
            \E draws \in Draws(Len(robots)) :
                robots' = SnapshotUpdate(swarm_mode, sensed, draws)]_vars

\* the ids of the roster rs
Ids(rs) == { rs[i].id : i \in 1..Len(rs) }

\* the robots with ids a and b are distinct and closer than AGGREGATION_DISTANCE
InRange(rs, a, b) ==
    a # b /\ Distance2(ById(rs, a), ById(rs, b)) < Sq(AGGREGATION_DISTANCE)

\* the ids reachable from the set s of ids through chains of pairs in range
RECURSIVE Reachable(_, _)
Reachable(rs, s) ==
    LET more == s \cup { b \in Ids(rs) : \E a \in s : InRange(rs, a, b) }
    IN  IF more = s THEN s ELSE Reachable(rs, more)

\* the naive reference: the connected components with more than one member
NaiveClusters(rs) ==
    { c \in { Reachable(rs, {a}) : a \in Ids(rs) } : Cardinality(c) > 1 }

\* the members of the k-th reported cluster
Members(k) == { clusters[k][j] : j \in 1..Len(clusters[k]) }

SwarmStates == {"moving", "stopped", "leaving"}
WallFollowStates == {"searching", "following"}

\* C5: the single robot's wall_follow_state is always 'searching' or
\* 'following' and every swarm robot's state is always 'moving', 'stopped' or
\* 'leaving', whatever ticks, policy selections and resets have happened.
C5_LegalTags ==
    /\ prog = "single" => robot.wall_follow_state \in WallFollowStates
    /\ prog = "swarm" => \A i \in 1..Len(robots) : robots[i].state \in SwarmStates

\* C5, witness: after some ticks all three tags are in use in the
\* swarm
C5_Witness ==
    /\ prog = "swarm"
    /\ tick > 0
    /\ \E i, j, k \in 1..Len(robots) :
          /\ robots[i].state = "stopped"
          /\ robots[j].state = "leaving"
          /\ robots[k].state = "moving"

\* the point of the ray of sensor i of the robot self at the given distance
RayPoint(self, i, distance) ==
    LET angle == self.angle + sensor_angles[i]
    IN  << self.x + RoundDiv(distance * Scale * Cos(angle), TrigScale),
           self.y + RoundDiv(distance * Scale * Sin(angle), TrigScale) >>

\* the ray of sensor i of the robot self is inside an obstacle of ws at the
\* given distance
RayHits(self, ws, i, distance) ==
    LET p == RayPoint(self, i, distance) IN HitsWall(ws, p[1], p[2])

\* d is the first unit step distance in 1 .. SENSOR_RANGE - 1 at which the ray
\* of sensor i is inside an obstacle, or SENSOR_RANGE if there is none
FirstHit(self, ws, i, d) ==
    /\ d \in 1..SENSOR_RANGE
    /\ \A e \in 1..(d - 1) : ~RayHits(self, ws, i, e)
    /\ d < SENSOR_RANGE => RayHits(self, ws, i, d)

\* C6: every reading of the single robot lies in [0, SENSOR_RANGE], at
\* construction and after sense_walls, for every sensor, pose and obstacle
\* set; after sense_walls the reading of a sensor is the first unit step
\* distance at which its ray point lies inside an obstacle, else SENSOR_RANGE.
C6_Readings ==
    /\ Len(robot.sensor_readings) = Len(sensor_angles)
    /\ \A i \in 1..Len(sensor_angles) :
          /\ robot.sensor_readings[i] \in 0..SENSOR_RANGE
          /\ tick = 1 => FirstHit(robot, walls, i, robot.sensor_readings[i])

\* C6, witness: after sense_walls one sensor reads nothing, another reads an
\* obstacle at more than one step, and the ray of that one stays inside
\* obstacles at the next step too
C6_Witness ==
    /\ tick = 1
    /\ \E i, j \in 1..Len(sensor_angles) :
          /\ robot.sensor_readings[i] = SENSOR_RANGE
          /\ robot.sensor_readings[j] \in 2..(SENSOR_RANGE - 2)
          /\ RayHits(robot, walls, j, robot.sensor_readings[j] + 1)

\* some other robot of the roster rs is closer to rs[i] than AGGREGATION_DISTANCE
HasCloseRobot(rs, i) ==
    \E j \in 1..Len(rs) :
        j # i /\ Distance2(rs[i], rs[j]) < Sq(AGGREGATION_DISTANCE)

\* C7: a tick of the basic-stop policy leaves every robot whose nearest
\* neighbour at the start of the tick is closer than AGGREGATION_DISTANCE
\* 'stopped' with speed 0 where it was, and every other robot 'moving' with
\* speed max_speed, whatever the places of the robots in the roster.
C7_BasicStop ==
    [][(SwarmTick /\ swarm_mode = "basic") =>
          \A i \in 1..Len(robots) :
              IF HasCloseRobot(robots, i)
              THEN /\ robots'[i].state = "stopped"
                   /\ robots'[i].speed = 0
                   /\ robots'[i].x = robots[i].x
                   /\ robots'[i].y = robots[i].y
              ELSE /\ robots'[i].state = "moving"
                   /\ robots'[i].speed = robots[i].max_speed]_vars

\* C7, witness: after the first tick, under basic stop, two robots 5 units
\* apart are both stopped with speed 0 where they were placed; one of them
\* has a robot earlier in the roster in sensor range but not close, which
\* the sort put behind the close one
C7_Witness ==
    /\ prog = "swarm" /\ swarm_mode = "basic" /\ tick = 1
    /\ \E i, j, k \in 1..Len(robots) :
          /\ k < j /\ i # j
          /\ Distance2(robots[i], robots[j]) = Sq(5)
          /\ robots[i].state = "stopped" /\ robots[i].speed = 0
          /\ robots[j].state = "stopped" /\ robots[j].speed = 0
          /\ Len(robots[i].neighbors) = 2
          /\ robots[i].neighbors[1].robot = robots[j].id
          /\ robots[i].neighbors[2].robot = robots[k].id
          /\ robots[i].neighbors[2].distance2 >= Sq(AGGREGATION_DISTANCE)
          /\ \E q \in SwarmSpawns :
                 robots[i].x = q[1] * Scale /\ robots[i].y = q[2] * Scale

\* C8: on a tick of the wall follower a searching robot stays 'searching' if
\* all the readings of that tick are at or above 50 and becomes 'following' if
\* one is below; no tick of any policy takes a robot from 'following' to
\* 'searching' or changes the tag under another policy: after the one
\* transition the robot follows until K_2 or the reset key.
C8_SearchThenFollow ==
    /\ [][(Tick /\ mode = "wall_follower" /\ robot.wall_follow_state = "searching") =>
             robot'.wall_follow_state =
                 (IF \A i \in 1..Len(sensor_angles) : robot'.sensor_readings[i] >= 50
                  THEN "searching" ELSE "following")]_vars
    /\ [][(Tick /\ robot.wall_follow_state = "following") =>
             robot'.wall_follow_state = "following"]_vars
    /\ [][(Tick /\ mode # "wall_follower") =>
             robot'.wall_follow_state = robot.wall_follow_state]_vars
    /\ [][(prog = "single" /\ robot.wall_follow_state = "following"
                           /\ robot'.wall_follow_state = "searching") =>
             tick' = tick]_vars

\* C8, witness: an unattended wall follower (K_2 before the first tick, no key
\* since) that follows after a tick in which every reading was at or above 50
C8_Witness ==
    /\ prog = "single" /\ ~attended /\ mode = "wall_follower"
    /\ tick >= 2
    /\ robot.wall_follow_state = "following"
    /\ \A i \in 1..Len(sensor_angles) : robot.sensor_readings[i] >= 50

\* C9: K_2 leaves wall_follow_state 'searching', also when the wall follower
\* was the policy already and the robot was following; K_1 and K_3 leave
\* wall_follow_state as it was.
C9_Reselect ==
    /\ [][Key2 => mode' = "wall_follower" /\ robot'.wall_follow_state = "searching"]_vars
    /\ [][(Key1 \/ Key3) =>
             robot'.wall_follow_state = robot.wall_follow_state]_vars

\* C9, witness: the wall follower is the policy and the robot is searching
\* after a first tick in which it read a wall below 50 and did not move: that
\* tick was the wall follower's and made it 'following', K_2 came after it
C9_Witness ==
    /\ prog = "single" /\ mode = "wall_follower" /\ tick = 1
    /\ robot.wall_follow_state = "searching"
    /\ MinOf(robot.sensor_readings) < 50
    /\ \E p \in Spawns : robot.x = p[1] * Scale /\ robot.y = p[2] * Scale

\* a step of the swarm program that is no tick and changes the roster: only
\* the reset key takes one
SwarmReset == prog = "swarm" /\ tick' = tick /\ robots' # robots

\* C10: the reset key leaves a swarm roster of NUM_ROBOTS robots with pairwise
\* distinct ids, all 'moving' with wait_timer 0, and a single robot that is
\* 'searching' with an empty trail, from any state and however often it is
\* pressed; it does not change the selected policy.
C10_Reset ==
    /\ [][SwarmReset =>
             /\ Len(robots') = NUM_ROBOTS
             /\ \A i, j \in 1..Len(robots') : i # j => robots'[i].id # robots'[j].id
             /\ \A i \in 1..Len(robots') :
                    robots'[i].state = "moving" /\ robots'[i].wait_timer = 0
             /\ swarm_mode' = swarm_mode]_vars
    /\ [][KeyR =>
             /\ robot'.wall_follow_state = "searching"
             /\ robot'.trail = <<>>
             /\ mode' = mode]_vars

\* C10, witness: a swarm under the aggregation policy whose robots are all as
\* constructed (the construction speed, no neighbours sensed) although ticks
\* have run and clusters were found: the roster is one the reset key made
C10_Witness ==
    /\ prog = "swarm" /\ swarm_mode = "aggregation" /\ tick > 0
    /\ clusters # <<>>
    /\ Len(robots) = NUM_ROBOTS
    /\ \A i \in 1..Len(robots) :
          /\ robots[i].state = "moving" /\ robots[i].wait_timer = 0
          /\ robots[i].speed < robots[i].max_speed
          /\ robots[i].neighbors = <<>>

\* the readings are those of a robot with an obstacle near its front: one of
\* the three middle readings is below 40
NearObstacle(readings) == \E i \in 3..5 : readings[i] < 40

\* the three readings on the left add up to less than the three on the right
LessClearanceLeft(readings) ==
    readings[1] + readings[2] + readings[3] < readings[5] + readings[6] + readings[7]

\* the single robot's position after the step is the one speed along its new
\* heading from the old one, kept within the bounds
AdvancedAlongNewHeading ==
    /\ robot'.x = Clamp(ROBOT_SIZE * Scale, (SCREEN_WIDTH - ROBOT_SIZE) * Scale,
                        robot.x + RoundDiv(robot.speed * Cos(robot'.angle), TrigScale))
    /\ robot'.y = Clamp(ROBOT_SIZE * Scale, (SCREEN_HEIGHT - ROBOT_SIZE) * Scale,
                        robot.y + RoundDiv(robot.speed * Sin(robot'.angle), TrigScale))

\* C11: on a tick of collision avoidance with one of the three front readings
\* below 40 the heading changes by exactly the turn increment 0.1, to the right
\* (+) when the left readings average less than the right ones and to the
\* left (-) otherwise; with no front reading below 40 it changes by at most
\* the jitter 0.02; in both cases the robot advances by speed along the new
\* heading in the same tick.
C11_TurnAway ==
    [][(Tick /\ mode = "collision_avoidance") =>
          /\ IF NearObstacle(robot'.sensor_readings)
             THEN robot'.angle - robot.angle =
                      (IF LessClearanceLeft(robot'.sensor_readings)
                       THEN Deg(100) ELSE -Deg(100))
             ELSE Abs(robot'.angle - robot.angle) <= Deg(20)
          /\ AdvancedAlongNewHeading]_vars

\* C11, witness: a robot left alone under collision avoidance whose last tick
\* read an obstacle near its front with less clearance on the left, away from
\* the bounds
C11_Witness ==
    /\ prog = "single" /\ ~attended /\ mode = "collision_avoidance" /\ tick > 0
    /\ NearObstacle(robot.sensor_readings)
    /\ LessClearanceLeft(robot.sensor_readings)
    /\ robot.x > ROBOT_SIZE * Scale /\ robot.y > ROBOT_SIZE * Scale

\* no other robot of the roster rs is closer to rs[i] than d units
Alone(rs, i, d) ==
    \A j \in 1..Len(rs) : j # i => Distance2(rs[i], rs[j]) >= Sq(d)

\* C12: a stopped robot with no other robot in sensor range whose timed-stop
\* countdown expires becomes 'leaving' (countdown 30) with its heading
\* unchanged, and a stopped robot with no robot within AGGREGATION_DISTANCE
\* that leaves under aggregation (it does when its countdown expires) becomes
\* 'leaving' (countdown 20) with its heading unchanged: the average bearing
\* and the centroid are not computed over the empty list.
C12_EmptyLists ==
    [][SwarmTick =>
          \A i \in 1..Len(robots) :
              /\ ( /\ swarm_mode = "timed"
                   /\ robots[i].state = "stopped"
                   /\ robots[i].wait_timer <= 1
                   /\ Alone(robots, i, SWARM_SENSOR_RANGE) )
                     => /\ robots'[i].state = "leaving"
                        /\ robots'[i].wait_timer = 30
                        /\ robots'[i].angle = robots[i].angle
              /\ ( /\ swarm_mode = "aggregation"
                   /\ robots[i].state = "stopped"
                   /\ Alone(robots, i, AGGREGATION_DISTANCE) )
                     => /\ robots[i].wait_timer <= 1 => robots'[i].state = "leaving"
                        /\ robots'[i].state = "leaving"
                             => /\ robots'[i].wait_timer = 20
                                /\ robots'[i].angle = robots[i].angle]_vars

\* C12, witness: a robot that has just left under timed stop (countdown 30,
\* still at speed 0) with no neighbour sensed
C12_Witness ==
    /\ prog = "swarm" /\ swarm_mode = "timed" /\ tick = 1
    /\ robots[1].state = "leaving" /\ robots[1].wait_timer = 30
    /\ robots[1].speed = 0
    /\ robots[1].neighbors = <<>>

\* the roster robot i decides in during a tick: the robots before it as the
\* tick leaves them, the others as the tick found them
DuringLoop(i) ==
    [j \in 1..Len(robots) |-> IF j < i THEN robots'[j] ELSE robots[j]]

\* C13: a tick senses for every robot before any robot decides, then lets each
\* robot decide once by the policy selected before the tick and move once
\* right after its own decision, and detects the clusters once after every
\* robot has moved.
C13_Phases ==
    [][SwarmTick =>
          \E sensed \in {SenseAll(robots)} :
              /\ \A i \in 1..Len(robots) :
                     /\ robots'[i].neighbors = sensed[i].neighbors
                     /\ \E r \in Samples :
                            robots'[i] = update_position(
                                             Behavior(swarm_mode, sensed[i],
                                                      DuringLoop(i), r))
              /\ swarm_mode' = swarm_mode
              /\ clusters' = find_clusters(robots')]_vars

\* C13, witness: after a tick of aggregation, a robot that moved in it keeps
\* a neighbour list measured before a neighbour moved, and a cluster is found
C13_Witness ==
    /\ prog = "swarm" /\ swarm_mode = "aggregation" /\ tick > 0
    /\ clusters # <<>>
    /\ \E i \in 1..Len(robots) :
           /\ robots[i].neighbors # <<>>
           /\ robots[i].neighbors[1].distance2
                 # Distance2(robots[i], ById(robots, robots[i].neighbors[1].robot))

\* the neighbour list ns holds the robot with id b, at the squared distance d2
Lists(ns, b, d2) ==
    \E k \in 1..Len(ns) : ns[k].robot = b /\ ns[k].distance2 = d2

\* C14: after the sensing of a tick the neighbour list of a robot holds
\* exactly the other robots that were closer than SENSOR_RANGE, never the
\* robot itself, each once, each with its distance, nearest first; a robot is
\* in another's list exactly when that one is in its own, at the same
\* distance.
C14_NeighborList ==
    [][SwarmTick =>
          \A i \in 1..Len(robots) :
              LET ns == robots'[i].neighbors
              IN  /\ { ns[k].robot : k \in 1..Len(ns) }
                        = { robots[j].id : j \in { j \in 1..Len(robots) :
                                j # i /\ Distance2(robots[i], robots[j])
                                             < Sq(SWARM_SENSOR_RANGE) } }
                  /\ \A k, l \in 1..Len(ns) : k # l => ns[k].robot # ns[l].robot
                  /\ \A k \in 1..Len(ns) :
                         /\ ns[k].robot # robots[i].id
                         /\ ns[k].distance2
                               = Distance2(robots[i], ById(robots, ns[k].robot))
                         /\ k > 1 => ns[k - 1].distance2 <= ns[k].distance2
                  /\ \A j \in 1..Len(robots), k \in 1..Len(ns) :
                         ns[k].robot = robots[j].id
                             => Lists(robots'[j].neighbors, robots[i].id,
                                      ns[k].distance2)]_vars

\* C14, witness: a robot has sensed two others at different distances, which
\* were out of range of each other
C14_Witness ==
    /\ prog = "swarm" /\ tick > 0
    /\ \E i, j \in 1..Len(robots) :
           /\ Len(robots[i].neighbors) = 2
           /\ robots[i].neighbors[1].distance2 < robots[i].neighbors[2].distance2
           /\ Len(robots[j].neighbors) = 1

\* C15: in every tick, under any policy and after any mode switches, a robot
\* that is 'stopped' after its decision has speed 0 and is not moved by the
\* movement step of that tick; so under aggregation a moving robot that comes
\* within 20 units of its nearest close neighbour stands still from the tick
\* in which it becomes 'stopped'.
C15_StoppedStandsStill ==
    [][SwarmTick =>
          \A i \in 1..Len(robots) :
              robots'[i].state = "stopped"
                  => /\ robots'[i].speed = 0
                     /\ robots'[i].x = robots[i].x
                     /\ robots'[i].y = robots[i].y]_vars

\* the number of other robots of the roster rs closer to rs[i] than
\* AGGREGATION_DISTANCE
CloseCount(rs, i) ==
    Cardinality({ j \in 1..Len(rs) :
                    j # i /\ Distance2(rs[i], rs[j]) < Sq(AGGREGATION_DISTANCE) })

\* C16: under timed stop a robot that becomes 'stopped' gets the countdown
\* WAIT_TIME and stays 'stopped' while the countdown runs; when it expires,
\* with fewer than 3 robots within AGGREGATION_DISTANCE the robot becomes
\* 'leaving' with countdown 30, and with 3 or more it becomes 'leaving' with
\* countdown 30 or stays 'stopped' with the countdown back at WAIT_TIME;
\* 'stopped' is left in no other way.
C16_TimedStop ==
    [][(SwarmTick /\ swarm_mode = "timed") =>
          \A i \in 1..Len(robots) :
              LET old == robots[i]
                  new == robots'[i]
                  Leaves == new.state = "leaving" /\ new.wait_timer = 30
              IN  /\ (old.state = "moving" /\ new.state = "stopped")
                         => new.wait_timer = WAIT_TIME
                  /\ (old.state = "stopped" /\ old.wait_timer > 1)
                         => new.state = "stopped" /\ new.wait_timer = old.wait_timer - 1
                  /\ (old.state = "stopped" /\ old.wait_timer <= 1)
                         => IF CloseCount(robots, i) < 3
                            THEN Leaves
                            ELSE \/ Leaves
                                 \/ new.state = "stopped" /\ new.wait_timer = WAIT_TIME]_vars

\* C16, witness: a robot held by three or more close neighbours when its
\* countdown expired, as the countdown of a robot that had been stopped under
\* another policy does (it still has its speed and is not where it was)
C16_Witness ==
    /\ prog = "swarm" /\ swarm_mode = "timed" /\ tick = 1
    /\ robots[1].state = "stopped" /\ robots[1].wait_timer = WAIT_TIME
    /\ robots[1].speed = 20
    /\ robots[1].y # 400 * Scale
    /\ CloseCount(robots, 1) >= 3

\* C17: 'leaving' ends: under timed stop a leaving robot becomes 'moving'
\* exactly in the tick in which its countdown runs out and is 'leaving' until
\* then; under aggregation it becomes 'moving' when its countdown runs out, or
\* before that only with more than 8 robots within AGGREGATION_DISTANCE, and
\* is 'leaving' otherwise; under neither does 'leaving' turn into 'stopped',
\* and the countdown of a robot that stays 'leaving' has gone down by one.
C17_LeavingEnds ==
    [][(SwarmTick /\ swarm_mode \in {"timed", "aggregation"}) =>
          \A i \in 1..Len(robots) :
              LET old == robots[i]
                  new == robots'[i]
              IN  old.state = "leaving"
                      => /\ new.state \in {"leaving", "moving"}
                         /\ new.wait_timer = old.wait_timer - 1
                         /\ old.wait_timer <= 1 => new.state = "moving"
                         /\ (new.state = "moving" /\ old.wait_timer > 1)
                                => /\ swarm_mode = "aggregation"
                                   /\ CloseCount(robots, i) > 8]_vars

\* C17, witness: a robot that was leaving under aggregation is moving again
\* before its countdown has run out, nine robots being close to it
C17_Witness ==
    /\ prog = "swarm" /\ swarm_mode = "aggregation" /\ tick = 1
    /\ robots[1].state = "moving" /\ robots[1].wait_timer = 29
    /\ robots[1].speed = 24
    /\ robots[1].cluster_size = 9

\* what a vacuum step decides: the heading and the position
Decision(r) == <<r.angle, r.x, r.y>>

\* the decision the robot of this tick would have taken with the trail alt
\* and nothing else different: same pose, same readings, same draws
DecisionWith(alt) ==
    { Decision(update(mode,
                      [robot EXCEPT !.sensor_readings = robot'.sensor_readings,
                                    !.trail = alt],
                      r1, r2)) :
        r1 \in Samples, r2 \in Samples }

\* the trail t back to front
Reversed(t) == [k \in 1..Len(t) |-> t[Len(t) + 1 - k]]

\* C18, as stated: the trail has no effect on the decision; a robot with
\* another trail (here none at all, as after key 3) and nothing else
\* different takes the same heading and position.
C18_TrailIgnored ==
    [][(Tick /\ mode = "vacuum_cleaner") =>
          Decision(robot') \in DecisionWith(<<>>)]_vars

\* C18, amended: the contents of the trail have no effect on the decision,
\* its length has; a robot whose trail is as long but holds other positions
\* takes the same heading and position.
C18_TrailContentsIgnored ==
    [][(Tick /\ mode = "vacuum_cleaner") =>
          /\ Decision(robot') \in DecisionWith(Reversed(robot.trail))
          /\ Decision(robot') \in DecisionWith([k \in 1..Len(robot.trail) |-> <<0, 0>>])]_vars

\* C18, witness: a vacuum step has been taken with a trail that is long
\* enough to bend the spiral and is not its own reverse
C18_Witness ==
    /\ prog = "single" /\ mode = "vacuum_cleaner" /\ tick > 100
    /\ Len(robot.trail) > 100
    /\ Reversed(robot.trail) # robot.trail

\* the last n entries of the sequence s, all of it if it has no more
LastOf(s, n) == SubSeq(s, Max(1, Len(s) - n + 1), Len(s))

\* C19: the trail never has more than 500 entries; a vacuum step leaves the
\* last 500 entries of the old trail followed by the position the robot had
\* before the step, so the trail is the most recent positions in the order
\* they were visited; selecting the vacuum policy and resetting the robot
\* leave it empty.
C19_Trail ==
    /\ [](prog = "single" => Len(robot.trail) <= TRAIL_LIMIT)
    /\ [][/\ (Tick /\ mode = "vacuum_cleaner")
                => robot'.trail
                      = LastOf(Append(robot.trail,
                                      <<TruncDiv(robot.x, Scale), TruncDiv(robot.y, Scale)>>),
                               TRAIL_LIMIT)
          /\ (Tick /\ mode # "vacuum_cleaner") => robot'.trail = robot.trail
          /\ (prog = "single" /\ tick' = tick)
                => /\ (mode' = "vacuum_cleaner" /\ <<mode, robot>>' # <<mode, robot>>)
                         => robot'.trail = <<>>
                   /\ <<robot.x, robot.y, robot.angle>>' # <<robot.x, robot.y, robot.angle>>
                         => robot'.trail = <<>>]_vars

\* C19, witness: the trail is full and its oldest entries have been evicted
C19_Witness ==
    /\ prog = "single" /\ mode = "vacuum_cleaner" /\ tick > TRAIL_LIMIT + 2
    /\ Len(robot.trail) = TRAIL_LIMIT
    /\ robot.trail[1] # robot.trail[TRAIL_LIMIT]

\* the fields of a swarm robot a step may assign
Fields(r) ==
    <<r.x, r.y, r.angle, r.speed, r.state, r.wait_timer, r.neighbors, r.cluster_size>>

\* C20: no robot's fields are changed by another robot's step or by the
\* cluster detection: after a tick, in which every other robot has decided
\* and moved and the clusters have been detected, the position, heading,
\* speed, state, countdown and neighbour list of a robot are those its own
\* sensing, decision and movement give.
C20_OwnFieldsOnly ==
    [][SwarmTick =>
          \A i \in 1..Len(robots) :
              \E own \in { update_position(Behavior(swarm_mode,
                                                    sense_neighbors(robots[i], robots),
                                                    DuringLoop(i), r)) : r \in Samples } :
                  Fields(robots'[i]) = Fields(own)]_vars

\* C20, witness: after a tick a robot is stopped next to a robot that is
\* still moving and senses it, and a cluster has been detected
C20_Witness ==
    /\ prog = "swarm" /\ tick > 0 /\ clusters # <<>>
    /\ \E i, j \in 1..Len(robots) :
           /\ robots[i].state = "stopped"
           /\ robots[j].state = "moving"
           /\ robots[j].neighbors # <<>>
           /\ robots[j].neighbors[1].robot = robots[i].id

Stopped(rs) == { i \in 1..Len(rs) : rs[i].state = "stopped" }

\* a tick of a session in which no key is pressed once the robots run, under
\* basic stop
BasicTick == SwarmTick /\ ~attended /\ swarm_mode = "basic"

\* C22: under basic stop, with no mode switch and no reset while the robots
\* run, a stopped robot stays stopped and where it is in every later tick;
\* the nearest neighbour of a robot that is stopped after a tick is stopped
\* after that tick too, and the number of stopped robots never goes down.
C22_StoppedAbsorbing ==
    [][BasicTick =>
          /\ \A i \in Stopped(robots) :
                 /\ robots'[i].state = "stopped"
                 /\ robots'[i].x = robots[i].x
                 /\ robots'[i].y = robots[i].y
          /\ \A i \in Stopped(robots') :
                 /\ robots'[i].neighbors # <<>>
                 /\ ById(robots', robots'[i].neighbors[1].robot).state = "stopped"
          /\ Cardinality(Stopped(robots')) >= Cardinality(Stopped(robots))]_vars

\* C22, witness: well into a session under basic stop every robot is stopped,
\* one of them at a place it was not constructed at
C22_Witness ==
    /\ prog = "swarm" /\ ~attended /\ swarm_mode = "basic" /\ tick > 5
    /\ Stopped(robots) = 1..Len(robots)
    /\ \E i \in 1..Len(robots) :
           \A p \in SwarmSpawns : robots[i].x # p[1] * Scale

\* C23: under aggregation a stopped robot is 'leaving' within 2 * WAIT_TIME
\* ticks, whatever its cluster and the draws: its countdown is at most
\* 2 * WAIT_TIME, every tick of the policy either makes it 'leaving' or
\* leaves it 'stopped' with the countdown one lower, and the tick that finds
\* the countdown at 1 or less makes it 'leaving'.
C23_StoppedLeaves ==
    [][(SwarmTick /\ swarm_mode = "aggregation") =>
          \A i \in Stopped(robots) :
              /\ robots[i].wait_timer <= 2 * WAIT_TIME
              /\ \/ robots'[i].state = "leaving"
                 \/ /\ robots'[i].state = "stopped"
                    /\ robots[i].wait_timer > 1
                    /\ robots'[i].wait_timer = robots[i].wait_timer - 1]_vars

\* C23, witness: 2 * WAIT_TIME ticks after it stopped a robot has just left
\* under aggregation, no draw having made it leave earlier
C23_Witness ==
    /\ prog = "swarm" /\ ~attended /\ swarm_mode = "aggregation"
    /\ tick > 2 * WAIT_TIME
    /\ \E i \in 1..Len(robots) :
           /\ robots[i].state = "leaving"
           /\ robots[i].wait_timer = 20
           /\ robots[i].speed = 0

====
